---- MODULE Spec2Model ----
(***************************************************************************)
(* The two simulation scripts of the Multi-Device Bluetooth Driver:        *)
(*   windows/test/realtime_dashboard.py  (simulate, __main__)              *)
(*   windows/test/simulate_test.py       (MockBluetoothDriver)             *)
(* A run executes one of the two scripts; `script` says which.             *)
(***************************************************************************)
EXTENDS Integers, Sequences, FiniteSets, TLC

VARIABLES
    script,              \* which script this run executes
    \* ---- realtime_dashboard.py
    session,             \* position of __main__: Idle, Running, Stopping, Stopped
    cycle,               \* simulate(): the loop variable `cycle`
    idx,                 \* simulate(): 1-based position of `dev` in DEVICES; Len+1 = all rows printed
    devices,             \* the global list DEVICES (priority is written in place)
    logs,                \* simulate(): the local list `logs`
    shown,               \* the entries printed under RECENT AI ENGINE EVENT LOGS at the last tick
    \* ---- simulate_test.py
    active_connections,  \* MockBluetoothDriver.active_connections
    stats,               \* MockBluetoothDriver.stats
    out,                 \* the "> AI ACTION" lines printed so far
    nTraffic,            \* number of simulate_traffic calls made
    nOpt,                \* number of run_ai_optimization calls made
    pc,                  \* main(): the statement it is at
    loop_i,              \* main(): the loop variable `i`
    prevEval,            \* history: device state before, and lines printed by, the previous pass
    episode              \* history: per device, SignalBoost lines in its current low-signal episode

dashVars == <<session, cycle, idx, devices, logs, shown>>
driverVars == <<active_connections, stats, out, nTraffic, nOpt, pc, loop_i, prevEval, episode>>
vars == <<script, session, cycle, idx, devices, logs, shown,
          active_connections, stats, out, nTraffic, nOpt, pc, loop_i, prevEval, episode>>

(***************************************************************************)
(* realtime_dashboard.py                                                   *)
(***************************************************************************)
NUM_CYCLES == 20

RECENT_LOGS == 5

WEAK_SIGNAL == -85

\* traffic is in tenths of KB/s: 50 is the 5.0 of line 53
AUDIO_TRAFFIC == 50

DEVICES ==
    << [name |-> "Living Room AC", type |-> "Air Conditioner", addr |-> "B4:3A:92:7C:F5:12",
        priority |-> "MEDIUM", load |-> 0],
       [name |-> "Kitchen Fridge", type |-> "Refrigerator", addr |-> "C1:44:8E:20:BC:99",
        priority |-> "MEDIUM", load |-> 0],
       [name |-> "Sony XM4", type |-> "Headphones", addr |-> "A8:11:7F:32:01:45",
        priority |-> "HIGH", load |-> 0],
       [name |-> "Samsung S23", type |-> "Mobile Phone", addr |-> "D9:92:1C:88:A3:21",
        priority |-> "MEDIUM", load |-> 0],
       [name |-> "Sony Bravia TV", type |-> "Android TV", addr |-> "E2:33:00:11:CC:DD",
        priority |-> "LOW", load |-> 0] >>

\* random.randint(-95, -30): the values on both sides of the -85 test, and the
\* strongest one
DashSignals == {-86, -85, -30}

\* random.uniform(0.1, 15.5), or (0.1, 1.2) for a LOW device, in tenths of KB/s
DashTraffic(dev) ==
    IF dev.priority # "LOW" THEN {1, 50, 51, 155} ELSE {1, 12}

\* f"AI ACTION: Signal boost for {dev['name']} ({signal}dBm)"
SignalBoostText(dev, signal) ==
    [kind |-> "SignalBoost", name |-> dev.name, signal |-> signal]

\* f"AI ACTION: Elevating Sony XM4 to CRITICAL (High Fidelity Audio stream detected)"
ElevateText ==
    [kind |-> "PriorityElevate", name |-> "Sony XM4", signal |-> 0]

InLog(action, log) == \E i \in 1..Len(log) : log[i] = action

\* a faulty variant: every action is appended, the membership test left out
LogAlways(log, action) == Append(log, action)

\* if action not in logs: logs.append(action)
LogOnce(log, action) ==
    IF InLog(action, log) THEN log ELSE Append(log, action)

\* lines 49-51
BoostStep(dev, signal, log) ==
    IF signal < WEAK_SIGNAL THEN LogOnce(log, SignalBoostText(dev, signal)) ELSE log

\* a faulty variant: the audio test made against 10.0 KB/s instead of 5.0
ShouldElevateAt100(dev, traffic) ==
    dev.type = "Headphones" /\ traffic > 2 * AUDIO_TRAFFIC /\ dev.priority # "CRITICAL"

\* the test of line 53
ShouldElevate(dev, traffic) ==
    dev.type = "Headphones" /\ traffic > AUDIO_TRAFFIC /\ dev.priority # "CRITICAL"

\* lines 53-56, the device
ElevateDev(dev, traffic) ==
    IF ShouldElevate(dev, traffic) THEN [dev EXCEPT !.priority = "CRITICAL"] ELSE dev

\* a faulty variant: the elevation is not logged
ElevateLogSilent(dev, traffic, log) == log

\* lines 53-56, the log
ElevateLog(dev, traffic, log) ==
    IF ShouldElevate(dev, traffic) THEN LogOnce(log, ElevateText) ELSE log

\* a faulty variant: the whole log is shown
LastLogsAll(log) == log

\* logs[-5:]
LastLogs(log) ==
    IF Len(log) <= RECENT_LOGS THEN log
    ELSE SubSeq(log, Len(log) - RECENT_LOGS + 1, Len(log))

\* __main__: simulate() is entered; logs = []
Start ==
    /\ script = "realtime_dashboard"
    /\ session = "Idle"
    /\ session' = "Running"
    /\ logs' = <<>>
    /\ cycle' = 0
    /\ idx' = 1
    /\ UNCHANGED <<script, devices, shown>>
    /\ UNCHANGED driverVars

\* one iteration of `for dev in DEVICES` (lines 38-59), with its two draws; the
\* iteration is one step
Visit(signal, traffic) ==
    /\ script = "realtime_dashboard"
    /\ session = "Running"
    /\ cycle < NUM_CYCLES
    /\ idx <= Len(devices)
    /\ devices' = [devices EXCEPT ![idx] = ElevateDev(devices[idx], traffic)]
    /\ logs' = ElevateLog(devices[idx], traffic, BoostStep(devices[idx], signal, logs))
    /\ idx' = idx + 1
    /\ UNCHANGED <<script, session, cycle, shown>>
    /\ UNCHANGED driverVars

\* the end of a tick (lines 61-68): the log tail is printed, then the sleep
ShowLogs ==
    /\ script = "realtime_dashboard"
    /\ session = "Running"
    /\ cycle < NUM_CYCLES
    /\ idx = Len(devices) + 1
    /\ shown' = LastLogs(logs)
    /\ cycle' = cycle + 1
    /\ idx' = 1
    /\ UNCHANGED <<script, session, devices, logs>>
    /\ UNCHANGED driverVars

\* simulate() returns after the last cycle (lines 72-73)
Finish ==
    /\ script = "realtime_dashboard"
    /\ session = "Running"
    /\ cycle = NUM_CYCLES
    /\ session' = "Stopped"
    /\ UNCHANGED <<script, cycle, idx, devices, logs, shown>>
    /\ UNCHANGED driverVars

\* Ctrl+C while simulate() runs: KeyboardInterrupt leaves the loops at once
Interrupt ==
    /\ script = "realtime_dashboard"
    /\ session = "Running"
    /\ session' = "Stopping"
    /\ UNCHANGED <<script, cycle, idx, devices, logs, shown>>
    /\ UNCHANGED driverVars

\* a faulty variant: the interrupt is swallowed and the loop goes on
HandlerResumes ==
    /\ script = "realtime_dashboard"
    /\ session = "Stopping"
    /\ session' = "Running"
    /\ UNCHANGED <<script, cycle, idx, devices, logs, shown>>
    /\ UNCHANGED driverVars

\* except KeyboardInterrupt: print("Exiting dashboard...") (lines 74-75)
Handler ==
    /\ script = "realtime_dashboard"
    /\ session = "Stopping"
    /\ session' = "Stopped"
    /\ UNCHANGED <<script, cycle, idx, devices, logs, shown>>
    /\ UNCHANGED driverVars

DashNext ==
    \/ Start
    \/ /\ idx <= Len(devices)
       /\ \E signal \in DashSignals :
            \E traffic \in DashTraffic(devices[idx]) :
               Visit(signal, traffic)
    \/ ShowLogs
    \/ Finish
    \/ Interrupt
    \/ Handler

(***************************************************************************)
(* simulate_test.py                                                        *)
(***************************************************************************)
MaxDevices == 2

MaxTraffic == 2

MaxOpt == 2

DriftDevices == 1

DriftTraffic == 6

DriftOpt == 1

BOOST_SIGNAL == -80

\* DEVICE_TYPES.get(device_type, "Unknown")
DeviceTypeName(device_type) ==
    CASE device_type = 1 -> "Air Conditioner"
      [] device_type = 2 -> "Refrigerator"
      [] device_type = 3 -> "Android TV"
      [] device_type = 4 -> "Bluetooth Headphones"
      [] device_type = 5 -> "Mobile Phone"
      [] OTHER -> "Unknown"

\* connect_mock_device(name, device_type): two of the calls of main (lines 86, 88)
ConnectCalls == {<<"Living Room AC", 1>>, <<"Sony XM4", 4>>}

\* ":".join(["%02x" % random.randint(0, 255) for _ in range(6)]): two of the 2^48 addresses
ConnectAddrs == {"00:00:00:00:00:01", "00:00:00:00:00:02"}

\* random.randint(-90, -30): its two ends
ConnectSignals == {-90, -30}

\* random.randint(100, 5000): its two ends
PacketSizes == {100, 5000}

\* random.randint(-2, 2): its two ends
SignalDeltas == {-2, 2}

\* the dict built in connect_mock_device
NewDevice(name, device_type, addr, signal) ==
    [name |-> name, address |-> addr, type |-> DeviceTypeName(device_type),
     type_code |-> device_type, priority |-> "MEDIUM", signal |-> signal,
     data_rate |-> 0, status |-> "Connected"]

\* self.active_connections.append(device)
ConnectAppend(conns, device) == Append(conns, device)

\* a faulty variant: the update also rewrites the status of a device whose new
\* signal is weak
TrafficDevMarks(dev, packet_size, delta) ==
    [dev EXCEPT !.data_rate = packet_size * 2, !.signal = dev.signal + delta,
                !.status = IF dev.signal + delta < WEAK_SIGNAL THEN "Weak" ELSE dev.status]

\* the body of the loop of simulate_traffic, for one device
TrafficDev(dev, packet_size, delta) ==
    [dev EXCEPT !.data_rate = packet_size * 2, !.signal = dev.signal + delta]

\* the sum of the packet sizes drawn for devices 1..n
RECURSIVE SumPackets(_, _)
SumPackets(draws, n) ==
    IF n = 0 THEN 0 ELSE draws[n][1] + SumPackets(draws, n - 1)

\* lines 50-51 over the whole list
TrafficStats(st, draws, n) ==
    [st EXCEPT !.total_bytes = st.total_bytes + SumPackets(draws, n),
               !.packets = st.packets + n]

\* simulate_traffic over the whole list; draws[i] = <<packet_size, delta>> of device i
TrafficAll(conns, draws) ==
    [i \in 1..Len(conns) |-> TrafficDev(conns[i], draws[i][1], draws[i][2])]

\* the test of line 59
NeedsElevation(dev) ==
    dev.type = "Bluetooth Headphones" /\ dev.priority # "CRITICAL"

\* a faulty variant: a pass that finds the Headphones device at CRITICAL puts it
\* back to MEDIUM
OptimizeDevToggle(dev) ==
    IF dev.type = "Bluetooth Headphones"
      THEN [dev EXCEPT !.priority = IF dev.priority = "CRITICAL" THEN "MEDIUM"
                                                                ELSE "CRITICAL"]
      ELSE dev

\* lines 59-61, the device
OptimizeDev(dev) ==
    IF NeedsElevation(dev) THEN [dev EXCEPT !.priority = "CRITICAL"] ELSE dev

\* a faulty variant: the three tests chained with elif, the first match wins
OptimizeLinesElif(dev, draw) ==
    IF NeedsElevation(dev)
      THEN << [kind |-> "PriorityElevate", name |-> dev.name, signal |-> 0] >>
      ELSE IF dev.signal < BOOST_SIGNAL
        THEN << [kind |-> "SignalBoost", name |-> dev.name, signal |-> dev.signal] >>
        ELSE IF dev.type = "Air Conditioner" /\ draw
          THEN << [kind |-> "PowerOptimize", name |-> "AC", signal |-> 0] >>
          ELSE << >>

\* the "> AI ACTION" lines one device gets in a pass (lines 59-70), in order;
\* draw is random.random() > 0.7
OptimizeLines(dev, draw) ==
    (IF NeedsElevation(dev)
       THEN << [kind |-> "PriorityElevate", name |-> dev.name, signal |-> 0] >>
       ELSE << >>)
    \o (IF dev.signal < BOOST_SIGNAL
       THEN << [kind |-> "SignalBoost", name |-> dev.name, signal |-> dev.signal] >>
       ELSE << >>)
    \o (IF dev.type = "Air Conditioner" /\ draw
       THEN << [kind |-> "PowerOptimize", name |-> "AC", signal |-> 0] >>
       ELSE << >>)

RECURSIVE PassLines(_, _, _)
\* the lines of a whole pass, devices i..Len(conns)
PassLines(conns, draws, i) ==
    IF i > Len(conns) THEN << >>
    ELSE OptimizeLines(conns[i], draws[i]) \o PassLines(conns, draws, i + 1)

\* a faulty variant: the pass also moves the CRITICAL devices to the front of the list
OptimizeAllSorted(conns) ==
    SelectSeq([i \in 1..Len(conns) |-> OptimizeDev(conns[i])],
              LAMBDA d : d.priority = "CRITICAL")
    \o SelectSeq([i \in 1..Len(conns) |-> OptimizeDev(conns[i])],
                 LAMBDA d : d.priority # "CRITICAL")

\* run_ai_optimization over the whole list
OptimizeAll(conns) ==
    [i \in 1..Len(conns) |-> OptimizeDev(conns[i])]

\* history: the episode record of device i after a telemetry update
EpisodeAfterTraffic(ep, dev) ==
    IF dev.signal < WEAK_SIGNAL THEN ep ELSE [ticks |-> 0, boosts |-> 0]

\* history: the episode record of device i after a pass that printed `lines` for it
EpisodeAfterPass(ep, dev, lines) ==
    IF dev.signal < WEAK_SIGNAL
      THEN [ticks |-> ep.ticks + 1,
            boosts |-> ep.boosts
                       + Cardinality({k \in 1..Len(lines) : lines[k].kind = "SignalBoost"})]
      ELSE [ticks |-> 0, boosts |-> 0]

NoEval == [valid |-> FALSE, conns |-> << >>, lines |-> << >>]

\* connect_mock_device(name, device_type) with its two random draws
Connect(name, device_type, addr, signal) ==
    /\ script = "simulate_test"
    /\ active_connections' =
         ConnectAppend(active_connections, NewDevice(name, device_type, addr, signal))
    /\ episode' = Append(episode, [ticks |-> 0, boosts |-> 0])
    /\ prevEval' = NoEval
    /\ UNCHANGED <<stats, out, nTraffic, nOpt>>
    /\ UNCHANGED script
    /\ UNCHANGED dashVars

\* simulate_traffic() with its draws
SimulateTraffic(draws) ==
    /\ script = "simulate_test"
    /\ nTraffic' = nTraffic + 1
    /\ active_connections' = TrafficAll(active_connections, draws)
    /\ episode' = [i \in 1..Len(episode) |->
                     EpisodeAfterTraffic(episode[i], active_connections'[i])]
    /\ stats' = TrafficStats(stats, draws, Len(active_connections))
    /\ prevEval' = NoEval
    /\ UNCHANGED <<out, nOpt>>
    /\ UNCHANGED script
    /\ UNCHANGED dashVars

\* run_ai_optimization() with its draws
RunAiOptimization(draws) ==
    /\ script = "simulate_test"
    /\ nOpt' = nOpt + 1
    /\ active_connections' = OptimizeAll(active_connections)
    /\ out' = out \o PassLines(active_connections, draws, 1)
    /\ stats' = [stats EXCEPT !.ai_optimizations =
                                 stats.ai_optimizations
                                 + Len(PassLines(active_connections, draws, 1))]
    /\ episode' = [i \in 1..Len(episode) |->
                     EpisodeAfterPass(episode[i], active_connections[i],
                                      OptimizeLines(active_connections[i], draws[i]))]
    /\ prevEval' = [valid |-> TRUE, conns |-> active_connections,
                    lines |-> PassLines(active_connections, draws, 1)]
    /\ UNCHANGED nTraffic
    /\ UNCHANGED script
    /\ UNCHANGED dashVars

\* the calls made on one MockBluetoothDriver, in any order, within the given bounds
DriverCalls(maxDevices, maxTraffic, maxOpt) ==
    \/ /\ Len(active_connections) < maxDevices
       /\ \E call \in ConnectCalls, addr \in ConnectAddrs, signal \in ConnectSignals :
            Connect(call[1], call[2], addr, signal)
       /\ UNCHANGED <<pc, loop_i>>
    \/ /\ nTraffic < maxTraffic
       /\ \E draws \in [1..Len(active_connections) -> PacketSizes \X SignalDeltas] :
            SimulateTraffic(draws)
       /\ UNCHANGED <<pc, loop_i>>
    \/ /\ nOpt < maxOpt
       /\ \E draws \in [1..Len(active_connections) -> BOOLEAN] :
            RunAiOptimization(draws)
       /\ UNCHANGED <<pc, loop_i>>

DriverNext == DriverCalls(MaxDevices, MaxTraffic, MaxOpt)

MAIN_CYCLES == 5

\* the five connect_mock_device calls of main (lines 86-90), in order
MainCalls ==
    << <<"Living Room AC", 1>>, <<"Kitchen Fridge", 2>>, <<"Sony XM4", 4>>,
       <<"Samsung S23", 5>>, <<"Sony Bravia TV", 3>> >>

\* the two random draws of a connect made by main: an address and a signal
MainConnectDraws == {<<"00:00:00:00:00:01", -90>>, <<"00:00:00:00:00:02", -30>>}

\* the draws of one call over n devices in which every device draws the same
\* value of S
AlikeDraws(n, S) == {[k \in 1..n |-> d] : d \in S}

\* a faulty variant: the pass runs in the odd cycles
PassDueOdd(k) == k % 2 = 1

\* if i % 2 == 0 (line 96)
PassDue(k) == k % 2 = 0

\* main: the next of the calls of lines 86-90
MainConnect ==
    /\ pc = "connect"
    /\ \E draw \in MainConnectDraws :
         Connect(MainCalls[Len(active_connections) + 1][1],
                 MainCalls[Len(active_connections) + 1][2], draw[1], draw[2])
    /\ pc' = IF Len(active_connections) + 1 = Len(MainCalls) THEN "for" ELSE "connect"
    /\ UNCHANGED loop_i

\* main: driver.simulate_traffic() of cycle i (lines 94-95)
MainTraffic ==
    /\ pc = "for"
    /\ loop_i < MAIN_CYCLES
    /\ \E draws \in AlikeDraws(Len(active_connections), PacketSizes \X SignalDeltas) :
         SimulateTraffic(draws)
    /\ pc' = IF PassDue(loop_i) THEN "optimize" ELSE "status"
    /\ UNCHANGED loop_i

\* main: driver.run_ai_optimization() (line 97)
MainOptimize ==
    /\ pc = "optimize"
    /\ \E draws \in AlikeDraws(Len(active_connections), BOOLEAN) :
         RunAiOptimization(draws)
    /\ pc' = "status"
    /\ UNCHANGED loop_i

\* main: driver.show_status(), which only prints, then the sleep; the loop
\* goes to its next cycle (lines 98-99)
MainStatus ==
    /\ script = "simulate_test"
    /\ pc = "status"
    /\ pc' = "for"
    /\ loop_i' = loop_i + 1
    /\ UNCHANGED <<active_connections, stats, out, nTraffic, nOpt, prevEval, episode>>
    /\ UNCHANGED script
    /\ UNCHANGED dashVars

\* main: range(5) is used up; the closing prints, and main returns (lines 101-102)
MainFinish ==
    /\ script = "simulate_test"
    /\ pc = "for"
    /\ loop_i = MAIN_CYCLES
    /\ pc' = "done"
    /\ UNCHANGED <<active_connections, stats, out, nTraffic, nOpt, loop_i, prevEval, episode>>
    /\ UNCHANGED script
    /\ UNCHANGED dashVars

MainNext ==
    \/ MainConnect
    \/ MainTraffic
    \/ MainOptimize
    \/ MainStatus
    \/ MainFinish

\* one device followed over a longer run of telemetry updates
DriftNext == DriverCalls(DriftDevices, DriftTraffic, DriftOpt)

\* the state before either script has run a statement
Fresh ==
    /\ session = "Idle"
    /\ cycle = 0
    /\ idx = 1
    /\ devices = DEVICES
    /\ logs = <<>>
    /\ shown = <<>>
    /\ active_connections = <<>>
    /\ stats = [total_bytes |-> 0, packets |-> 0, ai_optimizations |-> 0]
    /\ out = <<>>
    /\ nTraffic = 0
    /\ nOpt = 0
    /\ pc = "connect"
    /\ loop_i = 0
    /\ prevEval = NoEval
    /\ episode = <<>>

InitDashboard == script = "realtime_dashboard" /\ Fresh

InitDriver == script = "simulate_test" /\ Fresh

Init == script \in {"realtime_dashboard", "simulate_test"} /\ Fresh

Next == DashNext \/ DriverNext

\* either script
Spec == Init /\ [][Next]_vars

\* simulate_test.py: a MockBluetoothDriver and the calls made on it
SpecDriver == InitDriver /\ [][DriverNext]_vars

SpecDrift == InitDriver /\ [][DriftNext]_vars

\* realtime_dashboard.py: __main__
SpecDashboard == InitDashboard /\ [][DashNext]_vars

\* either script run as a program: __main__ of realtime_dashboard.py or main() of
\* simulate_test.py
SessionNext == DashNext \/ MainNext

\* a running script goes on to its next statement: every sleep returns
SpecSessions == Init /\ [][SessionNext]_vars /\ WF_vars(SessionNext)
(***************************************************************************)
(* Claims                                                                  *)
(***************************************************************************)

\* C1: in every maximal run of evaluations in which a device's signal stays
\* below -85 dBm, exactly one SignalBoost is produced for it: one at the first
\* evaluation of the episode and none at the later ones.  episode[i] counts the
\* evaluations (ticks) and the SignalBoost lines of device i's current episode.
C1_OneBoostPerEpisode ==
    \A i \in 1..Len(episode) :
        episode[i].ticks >= 1 => episode[i].boosts = 1

\* C5: no two active devices share an address (a connect with the address of an
\* active device would have to fail and leave the list as it was).
C5_UniqueAddresses ==
    \A i, j \in 1..Len(active_connections) :
        i # j => active_connections[i].address # active_connections[j].address

\* C6: after connect and after any number of simulate_traffic calls every
\* device's signal lies in [-100, 0].
C6_SignalClamped ==
    \A i \in 1..Len(active_connections) :
        /\ active_connections[i].signal >= -100
        /\ active_connections[i].signal <= 0
\* the lines a step added to the driver's output
NewLines == SubSeq(out', Len(out) + 1, Len(out'))

\* a pass that starts from the device state the previous pass started from,
\* nothing having been written in between
RepeatedPass ==
    /\ nOpt' = nOpt + 1
    /\ prevEval.valid
    /\ prevEval.conns = active_connections

\* C4: evaluating the devices a second time from an identical state produces no
\* new action of any kind: the output and the optimization count stay as the
\* first evaluation left them.
C4_Idempotent ==
    [][RepeatedPass => (out' = out /\ stats'.ai_optimizations = stats.ai_optimizations)]_vars

\* C8: two evaluations started from identical device states produce the same
\* actions and the same resulting priorities (no random draw inside the
\* evaluation decides an action).
C8_Deterministic ==
    [][RepeatedPass =>
          /\ NewLines = prevEval.lines
          /\ \A i \in 1..Len(active_connections) :
                active_connections'[i].priority = active_connections[i].priority]_vars
\* the number of PriorityElevate entries of a log that name `name`
Elevations(log, name) ==
    Cardinality({k \in 1..Len(log) :
                    log[k].kind = "PriorityElevate" /\ log[k].name = name})

\* C2: priority changes only with a recorded action: a device whose priority is
\* not the one it was connected with has an entry for its elevation in the log,
\* one entry per elevated device (the dashboard's logs; the driver's printed
\* action lines, where any number of Headphones devices may be connected).
C2_PriorityChangeIsLogged ==
    /\ \A i \in 1..Len(devices) :
          /\ devices[i].priority # DEVICES[i].priority =>
                InLog([kind |-> "PriorityElevate", name |-> devices[i].name, signal |-> 0],
                      logs)
          /\ Elevations(logs, devices[i].name) =
                Cardinality({j \in 1..Len(devices) :
                                /\ devices[j].name = devices[i].name
                                /\ devices[j].priority # DEVICES[j].priority})
    /\ \A i \in 1..Len(active_connections) :
          Elevations(out, active_connections[i].name) =
             Cardinality({j \in 1..Len(active_connections) :
                             /\ active_connections[j].name = active_connections[i].name
                             /\ active_connections[j].priority # "MEDIUM"})

\* two Headphones devices of the driver have been elevated, each with its line
C2_Witness ==
    /\ Len(active_connections) = 2
    /\ active_connections[1].priority = "CRITICAL"
    /\ active_connections[2].priority = "CRITICAL"
    /\ Elevations(out, "Sony XM4") = 2

\* the dashboard step evaluates a Headphones device that is not Critical, with a
\* traffic above the audio threshold
DashAudioEvaluation ==
    /\ script = "realtime_dashboard"
    /\ idx' = idx + 1
    /\ devices[idx].type = "Headphones"
    /\ devices[idx].priority # "CRITICAL"
    /\ \E signal \in DashSignals :
         \E traffic \in DashTraffic(devices[idx]) :
            traffic > AUDIO_TRAFFIC /\ Visit(signal, traffic)

\* the audio threshold in the driver's unit (bytes per second)
AudioRate == (AUDIO_TRAFFIC * 1024) \div 10

\* C3 (Scenario A): when a Headphones device that is not Critical is evaluated
\* with a data rate above the audio threshold, exactly one PriorityElevate action
\* is produced for it and its priority is Critical afterwards, and stays
\* Critical to the end of the tick (no step lowers a Critical priority).
C3_ScenarioA ==
    [][/\ DashAudioEvaluation =>
             /\ devices'[idx].priority = "CRITICAL"
             /\ Elevations(logs', devices[idx].name)
                   = Elevations(logs, devices[idx].name) + 1
       /\ \A i \in 1..Len(devices) :
             devices[i].priority = "CRITICAL" => devices'[i].priority = "CRITICAL"
       /\ nOpt' = nOpt + 1 =>
             \A i \in 1..Len(active_connections) :
                (/\ active_connections[i].type = "Bluetooth Headphones"
                 /\ active_connections[i].priority # "CRITICAL"
                 /\ active_connections[i].data_rate > AudioRate) =>
                   /\ active_connections'[i].priority = "CRITICAL"
                   /\ Elevations(NewLines, active_connections[i].name) =
                         Cardinality({j \in 1..Len(active_connections) :
                            /\ active_connections[j].name = active_connections[i].name
                            /\ active_connections[j].type = "Bluetooth Headphones"
                            /\ active_connections[j].priority # "CRITICAL"})
       /\ \A i \in 1..Len(active_connections) :
             active_connections[i].priority = "CRITICAL" =>
                active_connections'[i].priority = "CRITICAL"]_vars

\* the dashboard has just evaluated the headphones and elevated them
C3_Witness ==
    /\ script = "realtime_dashboard"
    /\ idx = 4
    /\ devices[3].priority = "CRITICAL"
    /\ Elevations(logs, "Sony XM4") = 1
    /\ shown = << >>
IsPrefix(p, q) == Len(p) <= Len(q) /\ SubSeq(q, 1, Len(p)) = p

SessionRank(s) ==
    CASE s = "Idle" -> 0
      [] s = "Running" -> 1
      [] s = "Stopping" -> 2
      [] s = "Stopped" -> 3

\* C9 as stated: once a stop is requested the tick in flight runs to its end:
\* a session that is stopping or stopped has evaluated either none or all of
\* the devices of its last tick.
C9_TickRunsToEnd ==
    session \in {"Stopping", "Stopped"} => idx \in {1, Len(devices) + 1}

\* C9 amended: a stop request (Ctrl+C) abandons the tick in flight at once: from
\* then on no device is evaluated, no tick begins and nothing is shown; the
\* stopping session can always go on to Stopped and goes nowhere else; and the
\* session state only moves forward through Idle, Running, Stopping, Stopped.
C9_StopAbandonsTick ==
    /\ [](session = "Stopping" => ENABLED Handler)
    /\ [][/\ session \in {"Stopping", "Stopped"} =>
                UNCHANGED <<cycle, idx, devices, logs, shown>>
          /\ session = "Stopping" => session' = "Stopped"
          /\ SessionRank(session') >= SessionRank(session)]_vars

\* stopped by Ctrl+C in the middle of a tick, two devices evaluated
C9_Witness ==
    /\ session = "Stopped"
    /\ cycle = 1
    /\ idx = 3

\* address, name and class of every device, in list order
DriverIdentity(conns) ==
    [i \in 1..Len(conns) |-> <<conns[i].address, conns[i].name, conns[i].type>>]

DashIdentity(devs) ==
    [i \in 1..Len(devs) |-> <<devs[i].addr, devs[i].name, devs[i].type>>]

\* C10: simulate_traffic and run_ai_optimization, and every step of the
\* dashboard, leave the devices and their order as they were; the list changes
\* only by a connect, which adds one device at the end.
C10_NoImplicitRemoval ==
    [][/\ (nTraffic' # nTraffic \/ nOpt' # nOpt) =>
             DriverIdentity(active_connections') = DriverIdentity(active_connections)
       /\ DriverIdentity(active_connections') # DriverIdentity(active_connections) =>
             /\ nTraffic' = nTraffic /\ nOpt' = nOpt
             /\ Len(active_connections') = Len(active_connections) + 1
             /\ SubSeq(DriverIdentity(active_connections'), 1, Len(active_connections))
                   = DriverIdentity(active_connections)
       /\ DashIdentity(devices') = DashIdentity(devices)]_vars

\* two devices, of which the first has been elevated by a pass after a
\* telemetry update
C10_Witness ==
    /\ Len(active_connections) = 2
    /\ nTraffic >= 1
    /\ nOpt >= 1
    /\ active_connections[1].priority = "CRITICAL"
    /\ active_connections[2].priority = "MEDIUM"

\* C11: a step sets a device's priority to Critical only if, at that
\* evaluation, the device is of class Headphones, its data rate exceeds the
\* audio threshold and its priority is not yet Critical (dashboard: the
\* evaluation drew a traffic above 5.0 KB/s; driver: data_rate of the device
\* above the same threshold in bytes per second).
C11_ElevateOnlyAboveThreshold ==
    [][/\ \A i \in 1..Len(devices) :
             (devices'[i].priority = "CRITICAL" /\ devices[i].priority # "CRITICAL") =>
                /\ i = idx
                /\ devices[i].type = "Headphones"
                /\ \E signal \in DashSignals :
                     \E traffic \in DashTraffic(devices[i]) :
                        traffic > AUDIO_TRAFFIC /\ Visit(signal, traffic)
       /\ \A i \in 1..Len(active_connections) :
             (/\ active_connections'[i].priority = "CRITICAL"
              /\ active_connections[i].priority # "CRITICAL") =>
                /\ active_connections[i].type = "Bluetooth Headphones"
                /\ active_connections[i].data_rate > AudioRate]_vars

\* C12: a SignalBoost is issued only for a signal strictly below -85 dBm: every
\* SignalBoost entry of the dashboard's log and every SignalBoost line of the
\* driver carries a signal below -85.
C12_BoostOnlyBelowWeakSignal ==
    /\ \A k \in 1..Len(logs) :
          logs[k].kind = "SignalBoost" => logs[k].signal < WEAK_SIGNAL
    /\ \A k \in 1..Len(out) :
          out[k].kind = "SignalBoost" => out[k].signal < WEAK_SIGNAL

ElevateCount(log) ==
    Cardinality({k \in 1..Len(log) : log[k].kind = "PriorityElevate"})

\* C14: priority is monotone.  The only change of priority a step makes is
\* from a value that is not Critical to Critical, so a Critical device stays
\* Critical; and every PriorityElevate produced is one such change, so that no
\* device is elevated twice.
C14_PriorityMonotone ==
    [][/\ \A i \in 1..Len(devices) :
             devices'[i].priority # devices[i].priority =>
                devices[i].priority # "CRITICAL" /\ devices'[i].priority = "CRITICAL"
       /\ ElevateCount(logs') - ElevateCount(logs) =
             Cardinality({i \in 1..Len(devices) :
                             devices'[i].priority # devices[i].priority})
       /\ \A i \in 1..Len(active_connections) :
             active_connections'[i].priority # active_connections[i].priority =>
                /\ active_connections[i].priority # "CRITICAL"
                /\ active_connections'[i].priority = "CRITICAL"
       /\ ElevateCount(out') - ElevateCount(out) =
             Cardinality({i \in 1..Len(active_connections) :
                             active_connections'[i].priority
                                # active_connections[i].priority})]_vars

\* a second pass has run over a Headphones device the first pass elevated: one
\* PriorityElevate in all
C14_Witness ==
    /\ Len(active_connections) = 1
    /\ nOpt = 2
    /\ active_connections[1].type = "Bluetooth Headphones"
    /\ active_connections[1].priority = "CRITICAL"
    /\ ElevateCount(out) = 1

\* C15: the frame of a tick.  A telemetry update and an optimization pass leave
\* the list's length and, of every device, every field but signal, data rate
\* and priority as they were (address, name and class among them); the
\* priority of a device that is not Headphones is never written; the update
\* writes no priority and the pass no signal or data rate.  The dashboard's
\* steps write nothing of a device but the priority of a Headphones one.
C15_TickFrame ==
    [][/\ (nTraffic' # nTraffic \/ nOpt' # nOpt) =>
             /\ Len(active_connections') = Len(active_connections)
             /\ \A i \in 1..Len(active_connections) :
                   /\ [active_connections'[i] EXCEPT
                          !.signal = active_connections[i].signal,
                          !.data_rate = active_connections[i].data_rate,
                          !.priority = active_connections[i].priority]
                         = active_connections[i]
                   /\ active_connections[i].type # "Bluetooth Headphones" =>
                         active_connections'[i].priority = active_connections[i].priority
                   /\ nTraffic' # nTraffic =>
                         active_connections'[i].priority = active_connections[i].priority
                   /\ nOpt' # nOpt =>
                         /\ active_connections'[i].signal = active_connections[i].signal
                         /\ active_connections'[i].data_rate
                               = active_connections[i].data_rate
       /\ Len(devices') = Len(devices)
       /\ \A i \in 1..Len(devices) :
             /\ [devices'[i] EXCEPT !.priority = devices[i].priority] = devices[i]
             /\ devices[i].type # "Headphones" =>
                   devices'[i].priority = devices[i].priority]_vars

\* a whole tick over an air conditioner and a Headphones device: the update has
\* written both data rates, the pass the priority of the Headphones device only
C15_Witness ==
    /\ Len(active_connections) = 2
    /\ nTraffic = 1
    /\ nOpt = 1
    /\ active_connections[1].type = "Air Conditioner"
    /\ active_connections[1].priority = "MEDIUM"
    /\ active_connections[1].data_rate = 10000
    /\ active_connections[2].type = "Bluetooth Headphones"
    /\ active_connections[2].priority = "CRITICAL"
    /\ active_connections[2].data_rate = 200

\* C16: the entries of the dashboard's log are pairwise distinct (an action
\* whose text equals an earlier entry is not appended again), and the log holds
\* at most one PriorityElevate entry.
C16_LogEntriesDistinct ==
    /\ \A i, j \in 1..Len(logs) : i # j => logs[i] # logs[j]
    /\ ElevateCount(logs) <= 1

\* ticks after the first: the log holds each text the draws can produce (a
\* SignalBoost per device and the PriorityElevate), once each, and the
\* evaluations go on
C16_Witness ==
    /\ session = "Running"
    /\ cycle >= 2
    /\ idx = 3
    /\ Len(logs) = Len(DEVICES) + 1
    /\ \A i \in 1..Len(DEVICES) : InLog(SignalBoostText(DEVICES[i], -86), logs)
    /\ InLog(ElevateText, logs)

\* C17: the session loops terminate.  Dashboard: a tick ends only after every
\* device has been visited, one device per step with the cycle unchanged;
\* simulate() returns only after exactly NUM_CYCLES ticks.  main of
\* simulate_test: every cycle makes its traffic update first, as the (i+1)-th
\* update in all; a pass runs only in an even cycle, after that cycle's update
\* and once; main ends after exactly 5 updates and 3 passes.  And the script
\* that runs always comes to its end.
C17_LoopsTerminate ==
    /\ [][/\ cycle' # cycle =>
                cycle' = cycle + 1 /\ idx = Len(devices) + 1 /\ idx' = 1
          /\ idx' # idx =>
                \/ idx' = idx + 1 /\ idx <= Len(devices) /\ cycle' = cycle
                \/ idx' = 1 /\ cycle' = cycle + 1
          /\ (session = "Running" /\ session' = "Stopped") =>
                cycle = NUM_CYCLES /\ idx = 1
          /\ (script = "simulate_test" /\ nTraffic' # nTraffic) =>
                /\ nTraffic = loop_i
                /\ loop_i < MAIN_CYCLES
                /\ nOpt = (loop_i + 1) \div 2
          /\ (script = "simulate_test" /\ nOpt' # nOpt) =>
                /\ loop_i % 2 = 0
                /\ nTraffic = loop_i + 1
                /\ nOpt = loop_i \div 2
          /\ pc' = "done" =>
                loop_i = MAIN_CYCLES /\ nTraffic = MAIN_CYCLES /\ nOpt = 3]_vars
    /\ <>(IF script = "realtime_dashboard" THEN session = "Stopped" ELSE pc = "done")

\* main has run to its end: five updates, three passes
C17_Witness ==
    /\ pc = "done"
    /\ loop_i = MAIN_CYCLES
    /\ nTraffic = MAIN_CYCLES
    /\ nOpt = 3
    /\ Len(active_connections) = Len(MainCalls)
====
